---- MODULE Spec2Model ----
(***************************************************************************)
(* D3D11Renderer (media_kit_video/windows/d3d11_renderer.cc): a Direct3D   *)
(* 11 device, one shared texture, its exported handle, a Win32 mutex and   *)
(* the process-wide instance counter, driven by several threads.           *)
(*                                                                         *)
(* Every renderer is one slot of Inst; a slot is constructed at most once. *)
(* Spec follows a single renderer under full interleaving of the threads;  *)
(* SeqSpec has several renderers constructed and destroyed one call after  *)
(* another.                                                                *)
(* A thread runs one call at a time; pc[t] is its position in the call and *)
(* this[t] the renderer the call is made on.  Environment outcomes (the    *)
(* HRESULTs of D3D11CreateDevice, CreateTexture2D, As, GetSharedHandle and *)
(* the handle value the driver exports) are chosen nondeterministically.   *)
(* CreateMutex is taken to succeed (the code never tests its result).      *)
(* SetSize and the destructor come from the embedding layer's owning       *)
(* thread (spec section 5): at most one of them is in progress on a        *)
(* renderer at a time, while CopyTexture may run on any thread meanwhile.  *)
(***************************************************************************)
EXTENDS Integers, FiniteSets, Sequences, TLC

NumThreads == 2
NumInst == 2
MaxDim == 2
MaxHandle == 2

Threads == 1..NumThreads
Inst == 1..NumInst
Dims == 1..MaxDim
HandleVals == 1..MaxHandle
NoThread == 0
NullHandle == 0

\* HRESULT outcomes of CreateTexture: S_OK, or the step that failed.
CreateOutcomes == {"ok", "CreateTexture2D", "As", "GetSharedHandle"}

VARIABLES
    life,                    \* per renderer: none, constructing, live, destroying, destroyed, failed
    width_, height_,         \* stored dimensions
    mutex_,                  \* the Win32 mutex handle: "null", "open", "closed"
    mutexOwner,              \* thread owning the mutex object, or NoThread
    d3d_11_device_,          \* pointer: "null" or "obj"
    d3d_11_device_context_,  \* pointer: "null" or "obj"
    deviceRefs, contextRefs, \* reference counts of the device / context objects
    shared_texture_,         \* ComPtr: "null" or "obj"
    textureRefs,             \* reference count of the renderer's latest texture object
    textureHandle,           \* the shared handle the driver exported for that object
    textureDesc,             \* <<Width, Height>> that object was created with
    handle_,                 \* stored exported handle
    hr,                      \* outcome of the renderer's latest CreateTexture ("none" before)
    instance_count_,         \* static int
    pc, this, tmp,           \* per thread: position, target renderer, counter value read
    prev,                    \* per thread in SetSize: the handle exported on entry, if it named a live texture
    ret,                     \* how SetSize returned, when the latest step was its return
    released                 \* per renderer: what the SetSize in progress or the destructor has released so far, in order

texVars == <<shared_texture_, textureRefs, textureHandle, textureDesc, handle_, hr>>
devVars == <<d3d_11_device_, d3d_11_device_context_, deviceRefs, contextRefs>>
vars == <<life, width_, height_, mutex_, mutexOwner, d3d_11_device_,
          d3d_11_device_context_, deviceRefs, contextRefs, shared_texture_,
          textureRefs, textureHandle, textureDesc, handle_, hr,
          instance_count_, pc, this, tmp, prev, ret, released>>

Init ==
    /\ life = [i \in Inst |-> "none"]
    /\ width_ = [i \in Inst |-> 1]
    /\ height_ = [i \in Inst |-> 1]
    /\ mutex_ = [i \in Inst |-> "null"]
    /\ mutexOwner = [i \in Inst |-> NoThread]
    /\ d3d_11_device_ = [i \in Inst |-> "null"]
    /\ d3d_11_device_context_ = [i \in Inst |-> "null"]
    /\ deviceRefs = [i \in Inst |-> 0]
    /\ contextRefs = [i \in Inst |-> 0]
    /\ shared_texture_ = [i \in Inst |-> "null"]
    /\ textureRefs = [i \in Inst |-> 0]
    /\ textureHandle = [i \in Inst |-> NullHandle]
    /\ textureDesc = [i \in Inst |-> <<0, 0>>]
    /\ handle_ = [i \in Inst |-> NullHandle]
    /\ hr = [i \in Inst |-> "none"]
    /\ instance_count_ = 0
    /\ pc = [t \in Threads |-> "idle"]
    /\ this = [t \in Threads |-> 0]
    /\ tmp = [t \in Threads |-> 0]
    /\ prev = [t \in Threads |-> NullHandle]
    /\ ret = "none"
    /\ released = [i \in Inst |-> <<>>]

\* Shared handles the driver has exported for textures that are still alive.
LiveHandles ==
    {textureHandle[i] : i \in {j \in Inst : textureRefs[j] > 0}} \ {NullHandle}

\* Values IDXGIResource::GetSharedHandle may return for a new texture: any
\* value that does not currently name another live texture.
FreshHandles == HandleVals \ LiveHandles

\* The stored handle names the renderer's own texture and that texture is alive.
HandleLive(i) ==
    /\ handle_[i] # NullHandle
    /\ shared_texture_[i] # "null"
    /\ textureRefs[i] > 0
    /\ textureHandle[i] = handle_[i]

\* A SetSize past its early return, or the destructor, is running on i.
Mutating(i) ==
    \E t \in Threads :
        /\ this[t] = i
        /\ pc[t] \in {"s_cleanup", "s_create", "d_cleanup", "d_release",
                      "d_close", "d_dec_read", "d_dec_write"}

Goto(t, loc) == pc' = [pc EXCEPT ![t] = loc]

Return(t) ==
    /\ pc' = [pc EXCEPT ![t] = "idle"]
    /\ this' = [this EXCEPT ![t] = 0]

(***************************************************************************)
(* Internal steps                                                          *)
(***************************************************************************)

\* CreateD3D11Device: returns at once when a device exists; otherwise
\* D3D11CreateDevice either fills device_ and context_ (ok) or fails.
CreateD3D11Device(i, ok) ==
    IF d3d_11_device_[i] # "null"
    THEN UNCHANGED devVars
    ELSE IF ok
    THEN /\ d3d_11_device_' = [d3d_11_device_ EXCEPT ![i] = "obj"]
         /\ d3d_11_device_context_' = [d3d_11_device_context_ EXCEPT ![i] = "obj"]
         /\ deviceRefs' = [deviceRefs EXCEPT ![i] = 1]
         /\ contextRefs' = [contextRefs EXCEPT ![i] = 1]
    ELSE UNCHANGED devVars

\* Return value of CreateD3D11Device.
CreateD3D11DeviceResult(i, ok) == d3d_11_device_[i] # "null" \/ ok

\* CreateTexture with outcome r; h is the handle value GetSharedHandle
\* writes on success, k what it leaves in handle_ on failure (the old value
\* or NULL).  shared_texture_ is null on entry (construction, or SetSize
\* after CleanUp), so operator& has nothing to release.
CreateTexture(i, r, h, k) ==
    /\ hr' = [hr EXCEPT ![i] = r]
    /\ IF r = "CreateTexture2D"
       THEN /\ shared_texture_' = [shared_texture_ EXCEPT ![i] = "null"]
            /\ UNCHANGED <<textureRefs, textureHandle, textureDesc, handle_>>
       ELSE /\ shared_texture_' = [shared_texture_ EXCEPT ![i] = "obj"]
            /\ textureDesc' = [textureDesc EXCEPT ![i] = <<width_[i], height_[i]>>]
            /\ textureRefs' = [textureRefs EXCEPT ![i] = IF r = "ok" THEN 2 ELSE 1]
            /\ textureHandle' = [textureHandle EXCEPT ![i] =
                                    IF r = "ok" THEN h ELSE NullHandle]
            /\ handle_' = [handle_ EXCEPT ![i] =
                              CASE r = "ok" -> h
                                [] r = "As" -> handle_[i]
                                [] OTHER -> k]

\* The inputs CreateTexture's environment may supply.
CreateChoices(i) ==
    {<<r, h, k>> \in CreateOutcomes \X FreshHandles \X {handle_[i], NullHandle} :
        /\ (r # "ok" => h = CHOOSE x \in FreshHandles : TRUE)
        /\ (r # "GetSharedHandle" => k = handle_[i])}

\* Mutant of CleanUp: the texture is released once only (the explicit
\* Release() is missing).
CleanUpOnce(i, release_device) ==
    /\ IF shared_texture_[i] # "null"
       THEN /\ shared_texture_' = [shared_texture_ EXCEPT ![i] = "null"]
            /\ textureRefs' = [textureRefs EXCEPT ![i] = @ - 1]
            /\ textureHandle' = [textureHandle EXCEPT ![i] =
                                    IF textureRefs[i] - 1 > 0 THEN @ ELSE NullHandle]
            /\ textureDesc' = [textureDesc EXCEPT ![i] =
                                  IF textureRefs[i] - 1 > 0 THEN @ ELSE <<0, 0>>]
       ELSE UNCHANGED <<shared_texture_, textureRefs, textureHandle, textureDesc>>
    /\ UNCHANGED <<handle_, hr>>
    /\ released' = [released EXCEPT ![i] =
           @ \o (IF shared_texture_[i] # "null" THEN <<"texture">> ELSE <<>>)
             \o (IF release_device /\ d3d_11_device_context_[i] # "null"
                 THEN <<"context">> ELSE <<>>)
             \o (IF release_device /\ d3d_11_device_[i] # "null"
                 THEN <<"device">> ELSE <<>>)]
    /\ IF release_device
       THEN /\ d3d_11_device_context_' = [d3d_11_device_context_ EXCEPT ![i] = "null"]
            /\ contextRefs' = [contextRefs EXCEPT ![i] =
                                  IF d3d_11_device_context_[i] # "null" THEN @ - 1 ELSE @]
            /\ d3d_11_device_' = [d3d_11_device_ EXCEPT ![i] = "null"]
            /\ deviceRefs' = [deviceRefs EXCEPT ![i] =
                                 IF d3d_11_device_[i] # "null" THEN @ - 1 ELSE @]
       ELSE UNCHANGED devVars

\* Mutant of CleanUp: the device and the context are released before the
\* texture.
CleanUpDeviceFirst(i, release_device) ==
    /\ IF shared_texture_[i] # "null"
       THEN /\ shared_texture_' = [shared_texture_ EXCEPT ![i] = "null"]
            /\ textureRefs' = [textureRefs EXCEPT ![i] = @ - 2]
            /\ textureHandle' = [textureHandle EXCEPT ![i] =
                                    IF textureRefs[i] - 2 > 0 THEN @ ELSE NullHandle]
            /\ textureDesc' = [textureDesc EXCEPT ![i] =
                                  IF textureRefs[i] - 2 > 0 THEN @ ELSE <<0, 0>>]
       ELSE UNCHANGED <<shared_texture_, textureRefs, textureHandle, textureDesc>>
    /\ UNCHANGED <<handle_, hr>>
    /\ released' = [released EXCEPT ![i] =
           @ \o (IF release_device /\ d3d_11_device_[i] # "null"
                 THEN <<"device">> ELSE <<>>)
             \o (IF release_device /\ d3d_11_device_context_[i] # "null"
                 THEN <<"context">> ELSE <<>>)
             \o (IF shared_texture_[i] # "null" THEN <<"texture">> ELSE <<>>)]
    /\ IF release_device
       THEN /\ d3d_11_device_context_' = [d3d_11_device_context_ EXCEPT ![i] = "null"]
            /\ contextRefs' = [contextRefs EXCEPT ![i] =
                                  IF d3d_11_device_context_[i] # "null" THEN @ - 1 ELSE @]
            /\ d3d_11_device_' = [d3d_11_device_ EXCEPT ![i] = "null"]
            /\ deviceRefs' = [deviceRefs EXCEPT ![i] =
                                 IF d3d_11_device_[i] # "null" THEN @ - 1 ELSE @]
       ELSE UNCHANGED devVars

\* CleanUp: shared_texture_->Release() followed by the ComPtr assignment of
\* nullptr (a second Release); with release_device the context and then the
\* device are released and nulled too.  handle_ is not touched.  released
\* records the releases in the order of the statements.
CleanUp(i, release_device) ==
    /\ IF shared_texture_[i] # "null"
       THEN /\ shared_texture_' = [shared_texture_ EXCEPT ![i] = "null"]
            /\ textureRefs' = [textureRefs EXCEPT ![i] = @ - 2]
            /\ textureHandle' = [textureHandle EXCEPT ![i] =
                                    IF textureRefs[i] - 2 > 0 THEN @ ELSE NullHandle]
            /\ textureDesc' = [textureDesc EXCEPT ![i] =
                                  IF textureRefs[i] - 2 > 0 THEN @ ELSE <<0, 0>>]
       ELSE UNCHANGED <<shared_texture_, textureRefs, textureHandle, textureDesc>>
    /\ UNCHANGED <<handle_, hr>>
    /\ released' = [released EXCEPT ![i] =
           @ \o (IF shared_texture_[i] # "null" THEN <<"texture">> ELSE <<>>)
             \o (IF release_device /\ d3d_11_device_context_[i] # "null"
                 THEN <<"context">> ELSE <<>>)
             \o (IF release_device /\ d3d_11_device_[i] # "null"
                 THEN <<"device">> ELSE <<>>)]
    /\ IF release_device
       THEN /\ d3d_11_device_context_' = [d3d_11_device_context_ EXCEPT ![i] = "null"]
            /\ contextRefs' = [contextRefs EXCEPT ![i] =
                                  IF d3d_11_device_context_[i] # "null" THEN @ - 1 ELSE @]
            /\ d3d_11_device_' = [d3d_11_device_ EXCEPT ![i] = "null"]
            /\ deviceRefs' = [deviceRefs EXCEPT ![i] =
                                 IF d3d_11_device_[i] # "null" THEN @ - 1 ELSE @]
       ELSE UNCHANGED devVars

\* Mutant of ReleaseMutex: the call has no effect.
ReleaseMutexNoOp(i, t) == UNCHANGED mutexOwner

\* ::ReleaseMutex by thread t: releases ownership when t owns the mutex and
\* fails (ERROR_NOT_OWNER / invalid handle) with no effect otherwise.
ReleaseMutex(i, t) ==
    mutexOwner' = [mutexOwner EXCEPT ![i] =
                      IF mutex_[i] = "open" /\ @ = t THEN NoThread ELSE @]

\* Mutant of WaitCanReturn: the wait does not block (a zero timeout).
WaitNeverBlocks(i, t) == TRUE

\* ::WaitForSingleObject(mutex_, INFINITE) can return to thread t: the mutex
\* is unowned (or already t's), or the handle is no longer valid and the
\* wait fails at once.
WaitCanReturn(i, t) ==
    \/ mutex_[i] # "open"
    \/ mutexOwner[i] \in {NoThread, t}

WaitForSingleObject(i, t) ==
    mutexOwner' = [mutexOwner EXCEPT ![i] = IF mutex_[i] = "open" THEN t ELSE @]

(***************************************************************************)
(* D3D11Renderer::D3D11Renderer(width, height)                             *)
(***************************************************************************)

\* The member initialisers and ::CreateMutex(NULL, FALSE, NULL).
Construct(t, i, w, h) ==
    /\ pc[t] = "idle"
    /\ life[i] = "none"
    /\ life' = [life EXCEPT ![i] = "constructing"]
    /\ width_' = [width_ EXCEPT ![i] = w]
    /\ height_' = [height_ EXCEPT ![i] = h]
    /\ mutex_' = [mutex_ EXCEPT ![i] = "open"]
    /\ mutexOwner' = [mutexOwner EXCEPT ![i] = NoThread]
    /\ pc' = [pc EXCEPT ![t] = "c_device"]
    /\ this' = [this EXCEPT ![t] = i]
    /\ ret' = "none"
    /\ UNCHANGED released
    /\ UNCHANGED prev
    /\ UNCHANGED <<devVars, texVars, instance_count_, tmp>>

\* Mutant of ConstructDevice: the result of CreateD3D11Device is not tested.
ConstructDeviceUnchecked(t, ok) ==
    LET i == this[t] IN
    /\ pc[t] = "c_device"
    /\ CreateD3D11Device(i, ok)
    /\ Goto(t, "c_texture")
    /\ ret' = "none"
    /\ UNCHANGED released
    /\ UNCHANGED prev
    /\ UNCHANGED <<life, width_, height_, mutex_, mutexOwner, texVars,
                   instance_count_, this, tmp>>

\* if (!CreateD3D11Device()) throw
ConstructDevice(t, ok) ==
    LET i == this[t] IN
    /\ pc[t] = "c_device"
    /\ CreateD3D11Device(i, ok)
    /\ Goto(t, IF CreateD3D11DeviceResult(i, ok) THEN "c_texture" ELSE "c_throw")
    /\ ret' = "none"
    /\ UNCHANGED released
    /\ UNCHANGED prev
    /\ UNCHANGED <<life, width_, height_, mutex_, mutexOwner, texVars,
                   instance_count_, this, tmp>>

\* Mutant of ConstructTexture: the result of CreateTexture is not tested.
ConstructTextureUnchecked(t, r, h, k) ==
    LET i == this[t] IN
    /\ pc[t] = "c_texture"
    /\ <<r, h, k>> \in CreateChoices(i)
    /\ CreateTexture(i, r, h, k)
    /\ Goto(t, "c_inc_read")
    /\ ret' = "none"
    /\ UNCHANGED released
    /\ UNCHANGED <<life, width_, height_, mutex_, mutexOwner, devVars,
                   instance_count_, this, tmp, prev>>

\* if (!CreateTexture()) throw
ConstructTexture(t, r, h, k) ==
    LET i == this[t] IN
    /\ pc[t] = "c_texture"
    /\ <<r, h, k>> \in CreateChoices(i)
    /\ CreateTexture(i, r, h, k)
    /\ Goto(t, IF r = "ok" THEN "c_inc_read" ELSE "c_throw")
    /\ ret' = "none"
    /\ UNCHANGED released
    /\ UNCHANGED prev
    /\ UNCHANGED <<life, width_, height_, mutex_, mutexOwner, devVars,
                   instance_count_, this, tmp>>

\* The exception leaves the constructor: ~D3D11Renderer does not run; the
\* members are destroyed, of which only the ComPtr shared_texture_ releases
\* anything (mutex_, d3d_11_device_ and d3d_11_device_context_ are a plain
\* handle and plain pointers).  No instance is returned; the scalar members
\* cease to exist and are put back to their initial values.
ConstructThrow(t) ==
    LET i == this[t] IN
    /\ pc[t] = "c_throw"
    /\ life' = [life EXCEPT ![i] = "failed"]
    /\ shared_texture_' = [shared_texture_ EXCEPT ![i] = "null"]
    /\ textureRefs' = [textureRefs EXCEPT ![i] =
                          IF shared_texture_[i] # "null" THEN @ - 1 ELSE @]
    /\ width_' = [width_ EXCEPT ![i] = 1]
    /\ height_' = [height_ EXCEPT ![i] = 1]
    /\ handle_' = [handle_ EXCEPT ![i] = NullHandle]
    /\ hr' = [hr EXCEPT ![i] = "none"]
    /\ Return(t)
    /\ ret' = "none"
    /\ UNCHANGED released
    /\ UNCHANGED prev
    /\ UNCHANGED <<mutex_, mutexOwner, devVars, textureHandle, textureDesc,
                   instance_count_, tmp>>

\* instance_count_++ is a plain read-modify-write of a static int.
ConstructCountRead(t) ==
    /\ pc[t] = "c_inc_read"
    /\ tmp' = [tmp EXCEPT ![t] = instance_count_]
    /\ Goto(t, "c_inc_write")
    /\ ret' = "none"
    /\ UNCHANGED released
    /\ UNCHANGED prev
    /\ UNCHANGED <<life, width_, height_, mutex_, mutexOwner, devVars, texVars,
                   instance_count_, this>>

ConstructCountWrite(t) ==
    LET i == this[t] IN
    /\ pc[t] = "c_inc_write"
    /\ instance_count_' = tmp[t] + 1
    /\ tmp' = [tmp EXCEPT ![t] = 0]
    /\ life' = [life EXCEPT ![i] = "live"]
    /\ Return(t)
    /\ ret' = "none"
    /\ UNCHANGED released
    /\ UNCHANGED prev
    /\ UNCHANGED <<width_, height_, mutex_, mutexOwner, devVars, texVars>>

(***************************************************************************)
(* D3D11Renderer::SetSize(width, height)                                   *)
(***************************************************************************)

\* Mutant of SetSize: the early return on equal dimensions is missing.
SetSizeAlways(t, i, w, h) ==
    /\ pc[t] = "idle"
    /\ life[i] = "live"
    /\ ~Mutating(i)
    /\ width_' = [width_ EXCEPT ![i] = w]
    /\ height_' = [height_ EXCEPT ![i] = h]
    /\ pc' = [pc EXCEPT ![t] = "s_cleanup"]
    /\ this' = [this EXCEPT ![t] = i]
    /\ prev' = [prev EXCEPT ![t] = IF HandleLive(i) THEN handle_[i] ELSE NullHandle]
    /\ ret' = "none"
    /\ UNCHANGED released
    /\ UNCHANGED <<life, mutex_, mutexOwner, devVars, texVars, instance_count_, tmp>>

\* Mutant of SetSize: CleanUp(false) runs before the dimensions are compared.
SetSizeCleanUpFirst(t, i, w, h) ==
    /\ pc[t] = "idle"
    /\ life[i] = "live"
    /\ ~Mutating(i)
    /\ CleanUp(i, FALSE)
    /\ IF w = width_[i] /\ h = height_[i]
       THEN /\ ret' = "SetSize:same"
            /\ UNCHANGED <<width_, height_, pc, this, prev>>
       ELSE /\ width_' = [width_ EXCEPT ![i] = w]
            /\ height_' = [height_ EXCEPT ![i] = h]
            /\ pc' = [pc EXCEPT ![t] = "s_cleanup"]
            /\ this' = [this EXCEPT ![t] = i]
            /\ prev' = [prev EXCEPT ![t] =
                           IF HandleLive(i) THEN handle_[i] ELSE NullHandle]
            /\ ret' = "none"
    /\ UNCHANGED <<life, mutex_, mutexOwner, instance_count_, tmp>>

\* The call up to CleanUp: the early return on equal dimensions, else the
\* two assignments.
SetSize(t, i, w, h) ==
    /\ pc[t] = "idle"
    /\ life[i] = "live"
    /\ ~Mutating(i)
    /\ IF w = width_[i] /\ h = height_[i]
       THEN /\ ret' = "SetSize:same"
            /\ UNCHANGED <<width_, height_, pc, this, prev>>
       ELSE /\ width_' = [width_ EXCEPT ![i] = w]
            /\ height_' = [height_ EXCEPT ![i] = h]
            /\ pc' = [pc EXCEPT ![t] = "s_cleanup"]
            /\ this' = [this EXCEPT ![t] = i]
            /\ prev' = [prev EXCEPT ![t] =
                           IF HandleLive(i) THEN handle_[i] ELSE NullHandle]
            /\ ret' = "none"
    /\ UNCHANGED <<life, mutex_, mutexOwner, devVars, texVars, instance_count_, tmp,
                   released>>

\* Mutant of SetSizeCleanUp: the device and the context are released too.
SetSizeCleanUpAll(t) ==
    LET i == this[t] IN
    /\ pc[t] = "s_cleanup"
    /\ CleanUp(i, TRUE)
    /\ Goto(t, "s_create")
    /\ ret' = "none"
    /\ UNCHANGED prev
    /\ UNCHANGED <<life, width_, height_, mutex_, mutexOwner, instance_count_,
                   this, tmp>>

\* CleanUp(false)
SetSizeCleanUp(t) ==
    LET i == this[t] IN
    /\ pc[t] = "s_cleanup"
    /\ CleanUp(i, FALSE)
    /\ Goto(t, "s_create")
    /\ ret' = "none"
    /\ UNCHANGED prev
    /\ UNCHANGED <<life, width_, height_, mutex_, mutexOwner, instance_count_,
                   this, tmp>>

\* CreateTexture(), its result ignored
SetSizeCreate(t, r, h, k) ==
    LET i == this[t] IN
    /\ pc[t] = "s_create"
    /\ <<r, h, k>> \in CreateChoices(i)
    /\ CreateTexture(i, r, h, k)
    /\ Return(t)
    /\ prev' = [prev EXCEPT ![t] = NullHandle]
    /\ ret' = IF r = "ok" THEN "SetSize:ok" ELSE "SetSize:failed"
    /\ released' = [released EXCEPT ![i] = <<>>]
    /\ UNCHANGED <<life, width_, height_, mutex_, mutexOwner, devVars,
                   instance_count_, tmp>>

(***************************************************************************)
(* D3D11Renderer::CopyTexture()                                            *)
(***************************************************************************)

CopyTexture(t, i) ==
    /\ pc[t] = "idle"
    /\ life[i] = "live"
    /\ pc' = [pc EXCEPT ![t] = "cp_wait"]
    /\ this' = [this EXCEPT ![t] = i]
    /\ ret' = "none"
    /\ UNCHANGED released
    /\ UNCHANGED prev
    /\ UNCHANGED <<life, width_, height_, mutex_, mutexOwner, devVars, texVars,
                   instance_count_, tmp>>

\* ::WaitForSingleObject(mutex_, INFINITE) returns
CopyWait(t) ==
    LET i == this[t] IN
    /\ pc[t] = "cp_wait"
    /\ WaitCanReturn(i, t)
    /\ WaitForSingleObject(i, t)
    /\ Goto(t, "cp_check")
    /\ ret' = "none"
    /\ UNCHANGED released
    /\ UNCHANGED prev
    /\ UNCHANGED <<life, width_, height_, mutex_, devVars, texVars,
                   instance_count_, this, tmp>>

\* Mutant of CopyCheck: without a context the call returns at once, the
\* mutex still held.
CopyCheckEarlyReturn(t) ==
    LET i == this[t] IN
    /\ pc[t] = "cp_check"
    /\ IF d3d_11_device_context_[i] # "null"
       THEN Goto(t, "cp_flush") /\ UNCHANGED this
       ELSE Return(t)
    /\ ret' = "none"
    /\ UNCHANGED released
    /\ UNCHANGED prev
    /\ UNCHANGED <<life, width_, height_, mutex_, mutexOwner, devVars, texVars,
                   instance_count_, tmp>>

\* if (d3d_11_device_context_ != nullptr)
CopyCheck(t) ==
    LET i == this[t] IN
    /\ pc[t] = "cp_check"
    /\ Goto(t, IF d3d_11_device_context_[i] # "null" THEN "cp_flush" ELSE "cp_release")
    /\ ret' = "none"
    /\ UNCHANGED released
    /\ UNCHANGED prev
    /\ UNCHANGED <<life, width_, height_, mutex_, mutexOwner, devVars, texVars,
                   instance_count_, this, tmp>>

\* d3d_11_device_context_->Flush()
CopyFlush(t) ==
    /\ pc[t] = "cp_flush"
    /\ Goto(t, "cp_release")
    /\ ret' = "none"
    /\ UNCHANGED released
    /\ UNCHANGED prev
    /\ UNCHANGED <<life, width_, height_, mutex_, mutexOwner, devVars, texVars,
                   instance_count_, this, tmp>>

\* ::ReleaseMutex(mutex_)
CopyRelease(t) ==
    LET i == this[t] IN
    /\ pc[t] = "cp_release"
    /\ ReleaseMutex(i, t)
    /\ Return(t)
    /\ ret' = "none"
    /\ UNCHANGED released
    /\ UNCHANGED prev
    /\ UNCHANGED <<life, width_, height_, mutex_, devVars, texVars,
                   instance_count_, tmp>>

(***************************************************************************)
(* D3D11Renderer::~D3D11Renderer()                                         *)
(***************************************************************************)

Destroy(t, i) ==
    /\ pc[t] = "idle"
    /\ life[i] = "live"
    /\ ~Mutating(i)
    /\ life' = [life EXCEPT ![i] = "destroying"]
    /\ pc' = [pc EXCEPT ![t] = "d_cleanup"]
    /\ this' = [this EXCEPT ![t] = i]
    /\ ret' = "none"
    /\ UNCHANGED released
    /\ UNCHANGED prev
    /\ UNCHANGED <<width_, height_, mutex_, mutexOwner, devVars, texVars,
                   instance_count_, tmp>>

\* CleanUp(true)
DestroyCleanUp(t) ==
    LET i == this[t] IN
    /\ pc[t] = "d_cleanup"
    /\ CleanUp(i, TRUE)
    /\ Goto(t, "d_release")
    /\ ret' = "none"
    /\ UNCHANGED prev
    /\ UNCHANGED <<life, width_, height_, mutex_, mutexOwner, instance_count_,
                   this, tmp>>

\* ::ReleaseMutex(mutex_)
DestroyRelease(t) ==
    LET i == this[t] IN
    /\ pc[t] = "d_release"
    /\ ReleaseMutex(i, t)
    /\ Goto(t, "d_close")
    /\ ret' = "none"
    /\ released' = [released EXCEPT ![i] = Append(@, "ReleaseMutex")]
    /\ UNCHANGED prev
    /\ UNCHANGED <<life, width_, height_, mutex_, devVars, texVars,
                   instance_count_, this, tmp>>

\* ::CloseHandle(mutex_): the only handle to the unnamed mutex; the mutex
\* object goes away with it.
DestroyClose(t) ==
    LET i == this[t] IN
    /\ pc[t] = "d_close"
    /\ mutex_' = [mutex_ EXCEPT ![i] = "closed"]
    /\ mutexOwner' = [mutexOwner EXCEPT ![i] = NoThread]
    /\ Goto(t, "d_dec_read")
    /\ ret' = "none"
    /\ released' = [released EXCEPT ![i] = Append(@, "CloseHandle")]
    /\ UNCHANGED prev
    /\ UNCHANGED <<life, width_, height_, devVars, texVars, instance_count_,
                   this, tmp>>

\* instance_count_-- is a plain read-modify-write of a static int.  With
\* the destructor's return the object's scalar members cease to exist and
\* are put back to their initial values.
DestroyCountRead(t) ==
    /\ pc[t] = "d_dec_read"
    /\ tmp' = [tmp EXCEPT ![t] = instance_count_]
    /\ Goto(t, "d_dec_write")
    /\ ret' = "none"
    /\ UNCHANGED released
    /\ UNCHANGED prev
    /\ UNCHANGED <<life, width_, height_, mutex_, mutexOwner, devVars, texVars,
                   instance_count_, this>>

\* Mutant of DestroyCountWrite: the counter is written back undecremented.
DestroyCountKept(t) ==
    LET i == this[t] IN
    /\ pc[t] = "d_dec_write"
    /\ instance_count_' = tmp[t]
    /\ tmp' = [tmp EXCEPT ![t] = 0]
    /\ life' = [life EXCEPT ![i] = "destroyed"]
    /\ width_' = [width_ EXCEPT ![i] = 1]
    /\ height_' = [height_ EXCEPT ![i] = 1]
    /\ handle_' = [handle_ EXCEPT ![i] = NullHandle]
    /\ hr' = [hr EXCEPT ![i] = "none"]
    /\ Return(t)
    /\ ret' = "none"
    /\ released' = [released EXCEPT ![i] = Append(@, "counter")]
    /\ UNCHANGED <<mutex_, mutexOwner, devVars, shared_texture_, textureRefs,
                   textureHandle, textureDesc, prev>>

DestroyCountWrite(t) ==
    LET i == this[t] IN
    /\ pc[t] = "d_dec_write"
    /\ instance_count_' = tmp[t] - 1
    /\ tmp' = [tmp EXCEPT ![t] = 0]
    /\ life' = [life EXCEPT ![i] = "destroyed"]
    /\ width_' = [width_ EXCEPT ![i] = 1]
    /\ height_' = [height_ EXCEPT ![i] = 1]
    /\ handle_' = [handle_ EXCEPT ![i] = NullHandle]
    /\ hr' = [hr EXCEPT ![i] = "none"]
    /\ Return(t)
    /\ ret' = "none"
    /\ released' = [released EXCEPT ![i] = Append(@, "counter")]
    /\ UNCHANGED prev
    /\ UNCHANGED <<mutex_, mutexOwner, devVars, shared_texture_, textureRefs,
                   textureHandle, textureDesc>>

(***************************************************************************)
(* Specifications                                                          *)
(***************************************************************************)

\* No other renderer has been constructed.
Sole(i) ==
    \A j \in Inst \ {i} : life[j] = "none"

\* One renderer, followed through its whole life; the threads interleave at
\* every step of every call.
Next ==
    \/ \E t \in Threads, i \in Inst, w \in Dims, h \in Dims :
          Sole(i) /\ Construct(t, i, w, h)
    \/ \E t \in Threads, ok \in BOOLEAN : ConstructDevice(t, ok)
    \/ \E t \in Threads, r \in CreateOutcomes, h \in HandleVals, k \in 0..MaxHandle :
          ConstructTexture(t, r, h, k)
    \/ \E t \in Threads : ConstructThrow(t)
    \/ \E t \in Threads : ConstructCountRead(t)
    \/ \E t \in Threads : ConstructCountWrite(t)
    \/ \E t \in Threads, i \in Inst, w \in Dims, h \in Dims : SetSize(t, i, w, h)
    \/ \E t \in Threads : SetSizeCleanUp(t)
    \/ \E t \in Threads, r \in CreateOutcomes, h \in HandleVals, k \in 0..MaxHandle :
          SetSizeCreate(t, r, h, k)
    \/ \E t \in Threads, i \in Inst : CopyTexture(t, i)
    \/ \E t \in Threads : CopyWait(t)
    \/ \E t \in Threads : CopyCheck(t)
    \/ \E t \in Threads : CopyFlush(t)
    \/ \E t \in Threads : CopyRelease(t)
    \/ \E t \in Threads, i \in Inst : Destroy(t, i)
    \/ \E t \in Threads : DestroyCleanUp(t)
    \/ \E t \in Threads : DestroyRelease(t)
    \/ \E t \in Threads : DestroyClose(t)
    \/ \E t \in Threads : DestroyCountRead(t)
    \/ \E t \in Threads : DestroyCountWrite(t)

Spec == Init /\ [][Next]_vars

\* The thread that owns the renderers (spec section 5).
Owner == CHOOSE t \in Threads : TRUE

\* Constructions and destructions that never overlap: the owning thread
\* makes them one after another; several renderers exist at once.
SeqNext ==
    \/ \E i \in Inst, w \in Dims, h \in Dims : Construct(Owner, i, w, h)
    \/ \E ok \in BOOLEAN : ConstructDevice(Owner, ok)
    \/ \E r \in CreateOutcomes, h \in HandleVals, k \in 0..MaxHandle :
          ConstructTexture(Owner, r, h, k)
    \/ ConstructThrow(Owner)
    \/ ConstructCountRead(Owner)
    \/ ConstructCountWrite(Owner)
    \/ \E i \in Inst : Destroy(Owner, i)
    \/ DestroyCleanUp(Owner)
    \/ DestroyRelease(Owner)
    \/ DestroyClose(Owner)
    \/ DestroyCountRead(Owner)
    \/ DestroyCountWrite(Owner)

SeqSpec == Init /\ [][SeqNext]_vars

\* One renderer is constructed and the threads call CopyTexture on it.
CopyNext ==
    \/ \E t \in Threads, i \in Inst, w \in Dims, h \in Dims :
          Sole(i) /\ Construct(t, i, w, h)
    \/ \E t \in Threads, ok \in BOOLEAN : ConstructDevice(t, ok)
    \/ \E t \in Threads, r \in CreateOutcomes, h \in HandleVals, k \in 0..MaxHandle :
          ConstructTexture(t, r, h, k)
    \/ \E t \in Threads : ConstructThrow(t)
    \/ \E t \in Threads : ConstructCountRead(t)
    \/ \E t \in Threads : ConstructCountWrite(t)
    \/ \E t \in Threads, i \in Inst : CopyTexture(t, i)
    \/ \E t \in Threads : CopyWait(t)
    \/ \E t \in Threads : CopyCheck(t)
    \/ \E t \in Threads : CopyFlush(t)
    \/ \E t \in Threads : CopyRelease(t)

\* Fair scheduling: a thread inside CopyTexture keeps running (weak
\* fairness of its steps), and a thread blocked in WaitForSingleObject gets
\* the mutex if it is free again and again (strong fairness): ReleaseMutex
\* hands a Win32 mutex to a waiting thread, so the releasing thread cannot
\* take it again ahead of the waiter.
CopyFairness ==
    \A t \in Threads :
        /\ SF_vars(CopyWait(t))
        /\ WF_vars(CopyCheck(t))
        /\ WF_vars(CopyFlush(t))
        /\ WF_vars(CopyRelease(t))

CopySpec == Init /\ [][CopyNext]_vars /\ CopyFairness

\* Constructions and destructions of distinct renderers on any thread, at
\* any time: the calls on different renderers overlap.
LifeNext ==
    \/ \E t \in Threads, i \in Inst, w \in Dims, h \in Dims : Construct(t, i, w, h)
    \/ \E t \in Threads, ok \in BOOLEAN : ConstructDevice(t, ok)
    \/ \E t \in Threads, r \in CreateOutcomes, h \in HandleVals, k \in 0..MaxHandle :
          ConstructTexture(t, r, h, k)
    \/ \E t \in Threads : ConstructThrow(t)
    \/ \E t \in Threads : ConstructCountRead(t)
    \/ \E t \in Threads : ConstructCountWrite(t)
    \/ \E t \in Threads, i \in Inst : Destroy(t, i)
    \/ \E t \in Threads : DestroyCleanUp(t)
    \/ \E t \in Threads : DestroyRelease(t)
    \/ \E t \in Threads : DestroyClose(t)
    \/ \E t \in Threads : DestroyCountRead(t)
    \/ \E t \in Threads : DestroyCountWrite(t)

LifeSpec == Init /\ [][LifeNext]_vars

(***************************************************************************)
(* Properties                                                              *)
(***************************************************************************)

\* No call is in progress on renderer i.
Quiet(i) == \A t \in Threads : this[t] # i

\* The renderer has everything construction promises.
Usable(i) ==
    /\ d3d_11_device_[i] # "null" /\ deviceRefs[i] > 0
    /\ d3d_11_device_context_[i] # "null" /\ contextRefs[i] > 0
    /\ shared_texture_[i] # "null" /\ textureRefs[i] > 0
    /\ handle_[i] # NullHandle

\* C1: between operations a live renderer's handle_ is non-null if and only
\* if shared_texture_ is non-null.
C1_HandleIffTexture ==
    \A i \in Inst :
        (life[i] = "live" /\ Quiet(i)) =>
            (handle_[i] # NullHandle <=> shared_texture_[i] # "null")

\* C2: a construction that returns an instance returns it with a device, a
\* context, a texture and a non-null handle; one that failed never returns
\* an instance.
C2_ConstructionAllOrNothing ==
    [][\A i \in Inst :
          /\ (life[i] # "live" /\ life'[i] = "live") => Usable(i)'
          /\ (life[i] = "failed") => (life'[i] = "failed")
          /\ (\E t \in Threads : this[t] = i /\ pc[t] = "c_throw") =>
                 (life'[i] # "live")]_vars

\* C2 witness: a construction has just returned a renderer with device,
\* context, texture and handle.
C2_Witness ==
    \E i \in Inst :
        life[i] = "live" /\ Quiet(i) /\ Usable(i) /\ hr[i] = "ok"

\* C3: SetSize with the stored width and height changes nothing: handle,
\* texture, device, context, mutex and instance counter stay as they are.
C3_SameSizeNoOp ==
    [][\A t \in Threads, i \in Inst :
          SetSize(t, i, width_[i], height_[i]) =>
              UNCHANGED <<life, width_, height_, mutex_, mutexOwner, devVars,
                          texVars, instance_count_>>]_vars

\* C3 witness: a SetSize with the stored dimensions has just returned on a
\* renderer that holds a live texture.
C3_Witness ==
    /\ ret = "SetSize:same"
    /\ \E i \in Inst : life[i] = "live" /\ HandleLive(i)

\* C4 as claimed: a SetSize that entered with a live exported handle and
\* whose texture creation succeeds ends with a non-null handle different
\* from the one it entered with.
C4_NewHandleDiffers ==
    [][\A t \in Threads, i \in Inst :
          (this[t] = i /\ pc[t] = "s_create" /\ pc'[t] = "idle" /\ hr'[i] = "ok"
              /\ prev[t] # NullHandle) =>
              (handle_'[i] # NullHandle /\ handle_'[i] # prev[t])]_vars

\* C4 amended: SetSize with different dimensions stores them, releases the
\* previous texture (the old handle then names no live texture) and, when
\* creation succeeds, ends with a live texture created at exactly the stored
\* dimensions and a non-null handle naming it.
C4_ResizeReplacesTexture ==
    [][\A t \in Threads, i \in Inst :
          /\ \A w \in Dims, h \in Dims :
                (SetSize(t, i, w, h) /\ ~(w = width_[i] /\ h = height_[i])) =>
                    /\ width_'[i] = w /\ height_'[i] = h
                    /\ pc'[t] = "s_cleanup" /\ this'[t] = i
          /\ (this[t] = i /\ pc[t] \in {"s_cleanup", "s_create"}) =>
                (width_'[i] = width_[i] /\ height_'[i] = height_[i])
          /\ (this[t] = i /\ pc[t] = "s_cleanup" /\ pc'[t] = "s_create") =>
                /\ shared_texture_'[i] = "null"
                /\ textureRefs'[i] <= 0
                /\ ~HandleLive(i)'
          /\ (this[t] = i /\ pc[t] = "s_create" /\ pc'[t] = "idle" /\ hr'[i] = "ok") =>
                /\ HandleLive(i)'
                /\ textureDesc'[i] = <<width_'[i], height_'[i]>>
       ]_vars

\* C4 witness: a SetSize with new dimensions has just returned with a live
\* texture of the stored size.
C4_Witness ==
    /\ ret = "SetSize:ok"
    /\ \E i \in Inst :
          /\ life[i] = "live" /\ HandleLive(i)
          /\ textureDesc[i] = <<width_[i], height_[i]>>

\* C5: after a SetSize whose texture creation failed the renderer has no
\* texture and a null handle.
C5_FailedResizeLeavesNothing ==
    \A i \in Inst :
        (life[i] = "live" /\ ~Mutating(i) /\ hr[i] # "ok") =>
            (shared_texture_[i] = "null" /\ handle_[i] = NullHandle)

\* Thread t is between the mutex acquire and the mutex release of
\* CopyTexture on renderer i.
InCopy(t, i) ==
    this[t] = i /\ pc[t] \in {"cp_check", "cp_flush", "cp_release"}

\* C6: while a renderer's mutex exists, at most one thread is between the
\* acquire and the release of CopyTexture on it.
C6_CopySerialized ==
    \A i \in Inst :
        mutex_[i] = "open" =>
            \A t \in Threads, u \in Threads :
                (InCopy(t, i) /\ InCopy(u, i)) => t = u

\* C6 witness: one thread is inside CopyTexture's critical section while
\* another waits for the same renderer's mutex.
C6_Witness ==
    \E i \in Inst, t \in Threads, u \in Threads :
        /\ t # u /\ mutex_[i] = "open" /\ life[i] = "live"
        /\ InCopy(t, i) /\ pc[t] = "cp_flush"
        /\ this[u] = i /\ pc[u] = "cp_wait"

\* C7: no thread is inside CopyTexture's critical section while another is
\* inside CleanUp or CreateTexture of the same renderer.
C7_NoFlushDuringMutation ==
    \A i \in Inst, t \in Threads, u \in Threads :
        ~ /\ t # u
          /\ InCopy(t, i)
          /\ this[u] = i
          /\ pc[u] \in {"s_cleanup", "s_create", "d_cleanup"}

\* C8: the instance counter equals the number of renderers that have been
\* constructed and not yet destroyed, and is never negative.
C8_CounterIsLiveCount ==
    /\ instance_count_ >= 0
    /\ instance_count_ = Cardinality({i \in Inst : life[i] \in {"live", "destroying"}})

\* C8 witness: after a failed construction and a construction followed by
\* a destruction the counter is back at zero.
C8_Witness ==
    /\ instance_count_ = 0
    /\ \E i \in Inst, j \in Inst : life[i] = "destroyed" /\ life[j] = "failed"

\* C9: once a construction has failed or a renderer has been destroyed,
\* its mutex handle is closed and its device, context and texture have
\* been released exactly as often as they were acquired.
C9_ReleasedExactlyOnce ==
    \A i \in Inst :
        life[i] \in {"failed", "destroyed"} =>
            /\ mutex_[i] = "closed"
            /\ deviceRefs[i] = 0
            /\ contextRefs[i] = 0
            /\ textureRefs[i] = 0

\* C10 as claimed: a SetSize that entered with a live exported handle and
\* whose texture creation fails leaves that handle unchanged and still
\* naming a live texture.
C10_StableAcrossFailedResize ==
    [][\A t \in Threads, i \in Inst :
          (this[t] = i /\ pc[t] = "s_create" /\ pc'[t] = "idle" /\ hr'[i] # "ok"
              /\ prev[t] # NullHandle) =>
              (handle_'[i] = prev[t] /\ HandleLive(i)')]_vars

\* C10 amended: a live exported handle keeps its value and keeps naming a
\* live texture until a SetSize with different dimensions or the destructor
\* starts; CopyTexture and SetSize with the stored dimensions never end it.
C10_StableUntilResize ==
    [][\A i \in Inst :
          (HandleLive(i) /\ ~Mutating(i)) =>
              \/ /\ handle_'[i] = handle_[i]
                 /\ HandleLive(i)'
                 /\ ~Mutating(i)'
              \/ /\ Mutating(i)'
                 /\ \/ life'[i] = "destroying"
                    \/ <<width_'[i], height_'[i]>> # <<width_[i], height_[i]>>
       ]_vars

\* C10 witness: a CopyTexture has flushed and is about to release the mutex
\* of a renderer whose handle is still live.
C10_Witness ==
    \E t \in Threads :
        /\ pc[t] = "cp_release"
        /\ life[this[t]] = "live"
        /\ HandleLive(this[t]) /\ ~Mutating(this[t])

\* C11: every CopyTexture call that starts waiting for the mutex of a
\* live renderer eventually acquires it, flushes and returns.
C11_CopyTerminates ==
    \A t \in Threads :
        (pc[t] = "cp_wait") ~> (pc[t] = "idle")

\* C11 witness: a CopyTexture call waits for the mutex while another thread's
\* call owns it and is about to release it.
C11_Witness ==
    \E i \in Inst, t \in Threads, u \in Threads :
        /\ life[i] = "live" /\ mutex_[i] = "open"
        /\ this[t] = i /\ pc[t] = "cp_wait"
        /\ this[u] = i /\ pc[u] = "cp_release" /\ mutexOwner[i] = u

\* The steps of a destructor run in the order of the source.
DestructionOrder ==
    <<"texture", "context", "device", "ReleaseMutex", "CloseHandle", "counter">>

\* C12: destruction releases the texture, then the context, then the
\* device, then releases and closes the mutex handle, then decrements the
\* instance counter, each once; the texture step is the first whenever the
\* renderer holds a texture.
C12_DestructionOrder ==
    [][\A i \in Inst :
          /\ (life[i] = "live" /\ life'[i] = "destroying") => released'[i] = <<>>
          /\ (life'[i] \in {"destroying", "destroyed"}) =>
                \E n \in 0..Len(DestructionOrder) :
                    released'[i] \in {SubSeq(DestructionOrder, 1, n),
                                      SubSeq(DestructionOrder, 2, n)}
          /\ (life[i] = "destroying" /\ shared_texture_[i] # "null"
                 /\ released'[i] # released[i]) =>
                released'[i][1] = "texture"
          /\ (life'[i] = "destroyed") =>
                released'[i] \in {DestructionOrder, Tail(DestructionOrder)}]_vars

\* C12 witness: a destructor has run to its end on a renderer that held a
\* texture, and all six steps are on record.
C12_Witness ==
    \E i \in Inst :
        life[i] = "destroyed" /\ released[i] = DestructionOrder

\* The device and context pointers of renderer i and their reference counts.
DeviceState(i) ==
    <<d3d_11_device_[i], d3d_11_device_context_[i], deviceRefs[i], contextRefs[i]>>

\* C13: the device and the context are created once, by the constructor,
\* and every live renderer holds them with one reference each; no step of
\* SetSize or CopyTexture changes them, only the destructor's CleanUp
\* releases them.
C13_DeviceLifetime ==
    [][\A i \in Inst :
          /\ (life'[i] = "live") => DeviceState(i)' = <<"obj", "obj", 1, 1>>
          /\ (DeviceState(i)' # DeviceState(i)) =>
                \E t \in Threads :
                    /\ this[t] = i
                    /\ \/ /\ pc[t] = "c_device"
                          /\ DeviceState(i) = <<"null", "null", 0, 0>>
                       \/ /\ pc[t] = "d_cleanup"
                          /\ DeviceState(i)' = <<"null", "null", 0, 0>>]_vars

\* C13 witness: a SetSize whose texture creation failed has just returned
\* and the renderer still holds its device and context.
C13_Witness ==
    /\ ret = "SetSize:failed"
    /\ \E i \in Inst :
          life[i] = "live" /\ DeviceState(i) = <<"obj", "obj", 1, 1>>

\* C14: the AddRef of CreateTexture is paired with the Release of CleanUp:
\* a texture's reference count never goes below zero, and it is zero
\* whenever the renderer has let go of the texture.
C14_RetainReleasePaired ==
    \A i \in Inst :
        /\ textureRefs[i] >= 0
        /\ (shared_texture_[i] = "null") => (textureRefs[i] = 0)

\* C15: a renderer's mutex is owned only by a thread that is between the
\* acquire and the release of a CopyTexture call on it: it is unowned from
\* construction on and again after every CopyTexture return, whether the
\* call flushed or found no context.
C15_MutexOwnedOnlyInCopy ==
    \A i \in Inst :
        /\ (mutex_[i] # "open") => (mutexOwner[i] = NoThread)
        /\ \A t \in Threads : (mutexOwner[i] = t) => InCopy(t, i)

\* C15 witness: a CopyTexture call acquired the mutex, found no context to
\* flush and is at its ReleaseMutex.
C15_Witness ==
    \E i \in Inst, t \in Threads :
        /\ this[t] = i /\ pc[t] = "cp_release"
        /\ mutex_[i] = "open" /\ mutexOwner[i] = t
        /\ d3d_11_device_context_[i] = "null"

\* C16: the constructor creates the mutex first, then the device, then the
\* texture: device creation starts with the mutex in place and nothing
\* else, texture creation is reached only with a device, and the counter is
\* incremented only by a constructor that has both device and texture.
C16_ConstructionOrder ==
    [][\A t \in Threads, i \in Inst :
          /\ (this'[t] = i /\ pc'[t] = "c_device") =>
                /\ mutex_'[i] = "open"
                /\ DeviceState(i)' = <<"null", "null", 0, 0>>
                /\ shared_texture_'[i] = "null" /\ hr'[i] = "none"
          /\ (this'[t] = i /\ pc'[t] = "c_texture") =>
                /\ mutex_'[i] = "open"
                /\ DeviceState(i)' = <<"obj", "obj", 1, 1>>
                /\ shared_texture_'[i] = "null" /\ hr'[i] = "none"
          /\ (this[t] = i /\ life[i] = "constructing" /\ texVars' # texVars
                 /\ pc'[t] # "idle") =>
                (pc[t] = "c_texture" /\ d3d_11_device_[i] # "null")
          /\ (this'[t] = i /\ pc'[t] \in {"c_inc_read", "c_inc_write"}) =>
                (Usable(i)' /\ hr'[i] = "ok")
          /\ (instance_count_' > instance_count_) =>
                \E u \in Threads :
                    /\ pc[u] = "c_inc_write" /\ Usable(this[u]) /\ hr[this[u]] = "ok"
                    /\ instance_count_' = tmp[u] + 1]_vars

\* C16 witness: a constructor holding mutex, device and texture is about to
\* write the incremented counter.
C16_Witness ==
    \E t \in Threads :
        /\ pc[t] = "c_inc_write"
        /\ mutex_[this[t]] = "open" /\ Usable(this[t])

\* C17: a thread that is about to call ReleaseMutex, in CopyTexture or in
\* the destructor, owns the mutex.
C17_ReleaseByOwner ==
    \A t \in Threads :
        (pc[t] \in {"cp_release", "d_release"}) => (mutexOwner[this[t]] = t)

\* C18: a CopyTexture call never flushes a context that has been released
\* and never waits on or releases a mutex handle that has been closed.
C18_NoUseAfterRelease ==
    \A t \in Threads :
        /\ (pc[t] = "cp_flush") =>
              /\ d3d_11_device_context_[this[t]] # "null"
              /\ contextRefs[this[t]] > 0
        /\ (pc[t] \in {"cp_wait", "cp_release"}) => (mutex_[this[t]] = "open")

\* C19: SetSize goes on to CleanUp and CreateTexture exactly when the
\* requested dimensions differ from the stored ones, whether or not a
\* texture exists, and stores the new dimensions first; so after a SetSize
\* whose creation failed the renderer has no texture, and a SetSize with
\* the same dimensions attempts no creation and leaves it without one.
C19_FailedResizeNotRetried ==
    [][\A t \in Threads, i \in Inst :
          /\ \A w \in Dims, h \in Dims :
                SetSize(t, i, w, h) =>
                    /\ (pc'[t] = "s_cleanup") <=> (<<w, h>> # <<width_[i], height_[i]>>)
                    /\ <<width_'[i], height_'[i]>> = <<w, h>>
          /\ (life[i] = "live" /\ ~Mutating(i) /\ hr[i] # "ok") =>
                /\ shared_texture_[i] = "null"
                /\ SetSize(t, i, width_[i], height_[i]) =>
                      (hr'[i] = hr[i] /\ shared_texture_'[i] = "null" /\ ~Mutating(i)')
       ]_vars

\* C20: constructions and destructions of distinct renderers on different
\* threads lose no update of the instance counter: once every call has
\* returned the counter equals the number of live renderers.
C20_NoLostUpdate ==
    (\A t \in Threads : pc[t] = "idle") =>
        instance_count_ = Cardinality({i \in Inst : life[i] = "live"})

====
